---- MODULE Spec2Model ----
(***************************************************************************)
(* Payment-lifecycle core of remnawave-telegram-shop:                      *)
(*   internal/payment/payment.go  (PaymentService)                         *)
(*   internal/rapyd client        (CreateCheckout, GetCheckoutStatus)      *)
(* Request-scoped operations run concurrently on a small set of workers;   *)
(* every repository call and every outbound call is one atomic step.       *)
(***************************************************************************)
EXTENDS Integers, Sequences, FiniteSets, TLC

(* ------------------------------- bounds ------------------------------- *)
\* total number of operations (requests) started in one behaviour
MaxOps == 2
\* number of rows the purchase table may hold
MaxPurchases == 2

(* --------------------------- program constants ------------------------ *)
\* purchase.Month*30 days per activation
DaysPerMonth == 30
\* config.GetReferralDays()
ReferralDays == 7

(* ------------------------------ universes ----------------------------- *)
\* two request workers: e.g. a webhook callback and a status poll
Procs == {"w1", "w2"}
PurchaseIds == 1..MaxPurchases
\* customer 1 buys (and may be a referee), customer 2 is the referrer
BuyerId == 1
ReferrerId == 2
CustomerIds == {BuyerId, ReferrerId}
Amounts == {500}
Months == {1}

InvoiceTypeCrypto == "crypto"
InvoiceTypeYookasa == "yookasa"
InvoiceTypeTelegram == "telegram"
InvoiceTypeRapyd == "rapyd"
\* a type the factory has no adapter for
InvoiceTypeTribute == "tribute"
SupportedInvoiceTypes ==
    {InvoiceTypeCrypto, InvoiceTypeYookasa, InvoiceTypeTelegram, InvoiceTypeRapyd}
InvoiceTypes == SupportedInvoiceTypes \cup {InvoiceTypeTribute}

PurchaseStatusNew == "new"
PurchaseStatusPending == "pending"
PurchaseStatusPaid == "paid"
PurchaseStatusCancel == "cancel"

\* a nil pointer to a record, a nil string pointer / SQL NULL, a nil error
NULL == [null |-> TRUE]
NoStr == "<nil>"
NoErr == "nil"
ErrFailed == "error"
ErrNotFound == "not found"
ErrUnknownType == "unknown invoice type"
ErrNoRows == "no rows updated"
ErrFind == "failed to find purchase"
ErrNotRapyd == "is not a Rapyd payment"
ErrNoCheckoutID == "has no Rapyd checkout ID"
ErrStatus == "failed to get checkout status"
ErrProcess == "failed to process purchase"
ErrPanic == "panic: nil pointer dereference"

VARIABLES
    purchases,    \* purchase table: row id = index
    customers,    \* customer table: id -> row or NULL
    referral,     \* the referral row of the buyer, or NULL
    remnawave,    \* entitlement provider: customer id -> days granted so far
    grantCalls,   \* purchase id -> CreateOrUpdateUser calls made for its buyer
    bonusCalls,   \* CreateOrUpdateUser calls made for the referrer
    pc,           \* worker -> position in its current operation
    op,           \* worker -> operation it runs
    arg,          \* worker -> arguments of the operation
    frame,        \* worker -> local variables of the operation
    calls,        \* worker -> outbound calls made by the current operation
    ret,          \* worker -> what the operation returned
    nOps,         \* operations started so far
    co,           \* the Rapyd client's CreateCheckout call in progress
    cv,           \* a convertAmountToCurrency call: arguments and result
    rq            \* two signed Rapyd requests, side by side

ledger == <<purchases, customers, referral>>
remote == <<remnawave, grantCalls, bonusCalls>>
service == <<purchases, customers, referral, remnawave, grantCalls,
             bonusCalls, pc, op, arg, frame, calls, ret, nOps>>
vars == <<purchases, customers, referral, remnawave, grantCalls,
          bonusCalls, pc, op, arg, frame, calls, ret, nOps, co, cv, rq>>

(* ---------------------------- repositories ---------------------------- *)
\* Purchase row as inserted by an adapter: state New, no correlation fields.
NewPurchase(id, t, cur, amount, months, c) ==
    [id |-> id, invoiceType |-> t, status |-> PurchaseStatusNew,
     amount |-> amount, currency |-> cur, customerID |-> c, month |-> months,
     cryptoInvoiceID |-> NoStr, cryptoInvoiceUrl |-> NoStr,
     yookasaID |-> NoStr, yookasaUrl |-> NoStr,
     rapydCheckoutID |-> NoStr, rapydURL |-> NoStr]

\* purchaseRepository.FindById: the row, or nil when absent
FindPurchaseById(ps, id) == IF id \in DOMAIN ps THEN ps[id] ELSE NULL

Terminal(status) == status \in {PurchaseStatusPaid, PurchaseStatusCancel}

\* mutants of PurchaseWritable: the terminal test forgets one terminal state
PurchaseWritableUnlessCancelled(ps, id) ==
    id \in DOMAIN ps /\ ps[id].status # PurchaseStatusCancel
PurchaseWritableUnlessPaid(ps, id) ==
    id \in DOMAIN ps /\ ps[id].status # PurchaseStatusPaid

\* A purchase mutator changes a row only while it is not in a terminal
\* state; the test is part of the same atomic update.
PurchaseWritable(ps, id) == id \in DOMAIN ps /\ ~Terminal(ps[id].status)

\* purchaseRepository.UpdateFields(id, updates): updates is a record of
\* column values.
PurchaseUpdateFields(ps, id, updates) ==
    IF PurchaseWritable(ps, id)
    THEN [ps EXCEPT ![id] =
            [f \in DOMAIN ps[id] |->
                IF f \in DOMAIN updates THEN updates[f] ELSE ps[id][f]]]
    ELSE ps

\* purchaseRepository.MarkAsPaid(id)
MarkAsPaid(ps, id) ==
    IF PurchaseWritable(ps, id)
    THEN [ps EXCEPT ![id].status = PurchaseStatusPaid]
    ELSE ps

\* customerRepository.FindById / FindByTelegramId
TelegramID(c) == 100 + c
FindCustomerById(cs, c) == IF c \in DOMAIN cs THEN cs[c] ELSE NULL
FindCustomerByTelegramId(cs, tg) ==
    IF \E c \in DOMAIN cs : cs[c] # NULL /\ cs[c].telegramID = tg
    THEN cs[CHOOSE c \in DOMAIN cs : cs[c] # NULL /\ cs[c].telegramID = tg]
    ELSE NULL

\* customerRepository.UpdateFields(id, {subscription_link, expire_at})
CustomerUpdateFields(cs, c, link, expireAt) ==
    [cs EXCEPT ![c] = [cs[c] EXCEPT !.subscriptionLink = link,
                                    !.expireAt = expireAt]]

\* referralRepository.FindByReferee(telegramId)
FindByReferee(r, tg) == IF r # NULL /\ r.refereeID = tg THEN r ELSE NULL

\* referralRepository.MarkBonusGranted(id)
MarkBonusGranted(r) == [r EXCEPT !.bonusGranted = TRUE]

\* remnawaveClient.CreateOrUpdateUser: extends the user by days, additive
CreateOrUpdateUser(rw, c, days) == [rw EXCEPT ![c] = @ + days]
UserOf(rw, c) == [subscriptionUrl |-> "sub", expireAt |-> rw[c]]

(* ------------------------ PaymentService: data ------------------------ *)
\* the currency convention of each adapter's inserted row
AdapterCurrency(t) ==
    CASE t = InvoiceTypeCrypto -> "USD"
      [] t = InvoiceTypeYookasa -> "RUB"
      [] t = InvoiceTypeTelegram -> "STARS"
      [] t = InvoiceTypeRapyd -> "USD"

\* mutant of Adapter: the default case falls into the crypto adapter
AdapterDefaultCrypto(t) ==
    IF t \in {InvoiceTypeYookasa, InvoiceTypeTelegram, InvoiceTypeRapyd}
    THEN t ELSE InvoiceTypeCrypto

\* CreatePurchase's switch: the adapter an invoice type is dispatched to,
\* NoStr for the default case
Adapter(t) ==
    CASE t = InvoiceTypeCrypto -> InvoiceTypeCrypto
      [] t = InvoiceTypeYookasa -> InvoiceTypeYookasa
      [] t = InvoiceTypeTelegram -> InvoiceTypeTelegram
      [] t = InvoiceTypeRapyd -> InvoiceTypeRapyd
      [] OTHER -> NoStr

\* what the provider of type t answers on success: external id, url
ProviderId(t, id) == t
ProviderUrl(t, id) == "https://pay"

\* mutant of AdapterUpdates: the Rapyd adapter also records the currency
\* the checkout was negotiated in
AdapterUpdatesNegotiated(t, extId, url) ==
    CASE t = InvoiceTypeCrypto ->
            [cryptoInvoiceUrl |-> url, cryptoInvoiceID |-> extId,
             status |-> PurchaseStatusPending]
      [] t = InvoiceTypeYookasa ->
            [yookasaUrl |-> url, yookasaID |-> extId,
             status |-> PurchaseStatusPending]
      [] t = InvoiceTypeTelegram ->
            [status |-> PurchaseStatusPending]
      [] t = InvoiceTypeRapyd ->
            [rapydCheckoutID |-> extId, rapydURL |-> url,
             status |-> PurchaseStatusPending, currency |-> "EUR"]

\* mutant of AdapterUpdates: the Rapyd adapter writes the crypto columns
AdapterUpdatesCryptoColumns(t, extId, url) ==
    CASE t = InvoiceTypeYookasa ->
            [yookasaUrl |-> url, yookasaID |-> extId,
             status |-> PurchaseStatusPending]
      [] t = InvoiceTypeTelegram ->
            [status |-> PurchaseStatusPending]
      [] OTHER ->
            [cryptoInvoiceUrl |-> url, cryptoInvoiceID |-> extId,
             status |-> PurchaseStatusPending]

\* the updates map each adapter writes after the remote call
AdapterUpdates(t, extId, url) ==
    CASE t = InvoiceTypeCrypto ->
            [cryptoInvoiceUrl |-> url, cryptoInvoiceID |-> extId,
             status |-> PurchaseStatusPending]
      [] t = InvoiceTypeYookasa ->
            [yookasaUrl |-> url, yookasaID |-> extId,
             status |-> PurchaseStatusPending]
      [] t = InvoiceTypeTelegram ->
            [status |-> PurchaseStatusPending]
      [] t = InvoiceTypeRapyd ->
            [rapydCheckoutID |-> extId, rapydURL |-> url,
             status |-> PurchaseStatusPending]

\* error an adapter returns when the initial insert fails
InsertFailure(t) == IF t = InvoiceTypeTelegram THEN NoErr ELSE ErrFailed

\* does a failed provider call return at once (the telegram adapter
\* assigns the error and goes on)
ReturnsOnProviderError(t) == t # InvoiceTypeTelegram

\* mutant of NotRapyd: the type test comes after the already-Paid test
NotRapydUnlessPaid(purchase) ==
    /\ purchase.invoiceType # InvoiceTypeRapyd
    /\ purchase.status # PurchaseStatusPaid

\* CheckRapydPaymentStatus: the purchase belongs to another provider
NotRapyd(purchase) == purchase.invoiceType # InvoiceTypeRapyd

\* mutant of AlreadyPaid: the short-circuit is missing
NeverAlreadyPaid(purchase) == FALSE

\* CheckRapydPaymentStatus: "already processed" short-circuit
AlreadyPaid(purchase) == purchase.status = PurchaseStatusPaid

\* mutant of NoCheckoutID: the nil test is missing
NoCheckoutIDEmptyOnly(purchase) == purchase.rapydCheckoutID = ""

\* CheckRapydPaymentStatus: no stored checkout id
NoCheckoutID(purchase) ==
    purchase.rapydCheckoutID = NoStr \/ purchase.rapydCheckoutID = ""

\* CheckRapydPaymentStatus: paid classification of a checkout status;
\* payment is the embedded payment's status, NoStr when there is no payment
CheckoutStatuses == {"ACT", "COMPLETED"}
PaymentStatuses == {NoStr, "ACT", "CLO"}
\* mutant of IsPaid: any payment object counts as a closed payment
IsPaidAnyPayment(status, payment) == status = "COMPLETED" \/ payment # NoStr

\* mutant of IsPaid: the payment's status is not looked at
IsPaidCompletedOnly(status, payment) == status = "COMPLETED"

IsPaid(status, payment) ==
    status = "COMPLETED" \/ (payment # NoStr /\ payment = "CLO")

(* --------------------------- workers: frames -------------------------- *)
NoCalls ==
    [create |-> 0, status |-> 0, activate |-> 0, grant |-> 0, bonus |-> 0,
     send |-> 0]
NoArg == [req |-> 0, purchaseId |-> 0, invoiceType |-> NoStr]
NoRet == [url |-> "", purchaseId |-> 0, paid |-> FALSE, err |-> NoErr]
EmptyFrame ==
    [purchaseId |-> 0, purchase |-> NULL, customer |-> NULL, user |-> NULL,
     referee |-> NULL, refCustomer |-> NULL, url |-> "", extId |-> NoStr,
     err |-> NoErr, status |-> NoStr, payment |-> NoStr]

Ret(url, id, paid, err) ==
    [url |-> url, purchaseId |-> id, paid |-> paid, err |-> err]

Idle(p) == pc[p] \in {"idle", "done"}

\* a worker takes up request number nOps + 1: operation o on purchase id
\* (CreatePurchase: of invoice type t)
Start(p, o, id, t) ==
    /\ Idle(p)
    /\ nOps < MaxOps
    /\ nOps' = nOps + 1
    /\ op' = [op EXCEPT ![p] = o]
    /\ arg' = [arg EXCEPT ![p] =
                  [req |-> nOps + 1, purchaseId |-> id, invoiceType |-> t]]
    /\ UNCHANGED <<co, cv, rq>>

\* the operation goes on at l with locals f
Goto(p, l, f) ==
    /\ pc' = [pc EXCEPT ![p] = l]
    /\ frame' = [frame EXCEPT ![p] = f]
    /\ UNCHANGED ret
\* the operation returns r; its locals are gone
Return(p, r) ==
    /\ pc' = [pc EXCEPT ![p] = "done"]
    /\ ret' = [ret EXCEPT ![p] = r]
    /\ frame' = [frame EXCEPT ![p] = EmptyFrame]
Call(p, k) == calls' = [calls EXCEPT ![p][k] = @ + 1]
Same(p) == UNCHANGED <<op, arg, nOps, co, cv, rq>>

\* what CheckRapydPaymentStatus returns for the error of the activation
CheckResult(err) ==
    IF err # NoErr THEN Ret("", 0, FALSE, ErrProcess) ELSE Ret("", 0, TRUE, NoErr)

\* ProcessPurchaseById returns err: to its caller, or into the poll; a
\* panic (nothing recovers it) unwinds through the poll as it is
Activated(p, err) ==
    Return(p, IF op[p] = "CheckRapydPaymentStatus" /\ err # ErrPanic
              THEN CheckResult(err)
              ELSE Ret("", 0, FALSE, err))

(* ----------------------- Rapyd client: CreateCheckout ----------------- *)
\* currencies a checkout is asked for: the eight of the switch, one outside
\* it and the empty string
Currencies ==
    {"", "USD", "EUR", "GBP", "ILS", "CAD", "AUD", "JPY", "SGD", "RUB"}
CheckoutAmounts == {1, 100, 499}

\* countriesToTry
CountriesToTry(currency) ==
    CASE currency = "USD" -> <<"GB", "DE", "CA", "AU", "SG">>
      [] currency = "EUR" -> <<"DE", "FR", "IT", "ES", "NL", "BE", "AT", "FI",
                               "IE", "PT", "GR">>
      [] currency = "GBP" -> <<"GB", "IE">>
      [] currency = "ILS" -> <<"IL">>
      [] currency = "CAD" -> <<"CA", "US">>
      [] currency = "AUD" -> <<"AU", "NZ", "US">>
      [] currency = "JPY" -> <<"JP", "US">>
      [] currency = "SGD" -> <<"SG", "MY", "US">>
      [] OTHER -> <<"US", "GB", "DE", "CA", "AU">>

\* payment methods a country may offer: category and status
Methods ==
    {[category |-> "card", status |-> 1],
     [category |-> "card", status |-> 0],
     [category |-> "bank_transfer", status |-> 1]}

\* what GetPaymentMethodsByCountry returns: an error or a list of methods
NoResponse == [err |-> FALSE, data |-> {}]
Responses ==
    {[err |-> TRUE, data |-> {}]}
    \cup {[err |-> FALSE, data |-> d] : d \in SUBSET Methods}

\* mutant of HasActiveCard: the status of the method is not looked at
HasAnyCard(methods) == \E m \in methods : m.category = "card"

\* the filter of the loop: a card method that is active
HasActiveCard(methods) ==
    \E m \in methods : m.category = "card" /\ m.status = 1

\* int(float64(amount) * 0.85)
UsdToEur(amount) == (amount * 85) \div 100

FallbackCountry == "DE"
FallbackCurrency == "EUR"

\* no CreateCheckout call is in progress
NoCheckout ==
    [pc |-> "idle", reqAmount |-> 0, reqCurrency |-> "", amount |-> 0,
     currency |-> "", idx |-> 0, resp |-> NoResponse, selectedCountry |-> "",
     nQueries |-> 0, lastQuery |-> <<"", "">>, request |-> NULL,
     err |-> NoErr]

(* ----------------------- convertAmountToCurrency --------------------- *)
MaxAmount == 40

\* rates, in hundredths of the currency per USD
rates ==
    [USD |-> 100, EUR |-> 85, GBP |-> 75, ILS |-> 370, CAD |-> 135,
     AUD |-> 150, JPY |-> 15000, SGD |-> 135, SEK |-> 1050, NOK |-> 1080,
     DKK |-> 680, CHF |-> 90, PLN |-> 400, CZK |-> 2300, HUF |-> 36000,
     RON |-> 460, BGN |-> 180, HRK |-> 680, MXN |-> 1700, BRL |-> 500,
     ZAR |-> 1800, RUB |-> 7500, UAH |-> 3600, INR |-> 8300, KRW |-> 130000,
     TWD |-> 3100, THB |-> 3500, MYR |-> 460, IDR |-> 1500000, PHP |-> 5500]

\* the currencies of the first case of the switch
WithoutMinorUnit == {"JPY", "KRW", "IDR"}

\* mutant of convertAmountToCurrency: the 0.5 is not added before int()
ConvertTruncating(amountUSD, currency) ==
    IF currency \notin DOMAIN rates THEN amountUSD
    ELSE (amountUSD * rates[currency]) \div 100

\* float64(amountUSD) * rate, then int(x) or int(x + 0.5): the products of
\* the table's rates with an int are computed here in hundredths
convertAmountToCurrency(amountUSD, currency) ==
    IF currency \notin DOMAIN rates THEN amountUSD
    ELSE IF currency \in WithoutMinorUnit
    THEN (amountUSD * rates[currency]) \div 100
    ELSE (amountUSD * rates[currency] + 50) \div 100

\* currencies a conversion is asked for: the table's and two outside it
ConvertCurrencies == DOMAIN rates \cup {"XXX", ""}

\* no conversion is in progress
NoConvert == [pc |-> "idle", amountUSD |-> 0, currency |-> "", result |-> 0]

(* -------------------------- request signature ------------------------- *)
\* strings are sequences of characters
LowerChar(ch) ==
    CASE ch = "G" -> "g" [] ch = "E" -> "e" [] ch = "T" -> "t"
      [] ch = "P" -> "p" [] ch = "O" -> "o" [] ch = "S" -> "s"
      [] OTHER -> ch

\* strings.ToLower
ToLower(s) == [i \in 1..Len(s) |-> LowerChar(s[i])]

\* HMAC-SHA256, hex.Encode and base64.StdEncoding.EncodeToString: the hash
\* is taken to be injective, and so are the two encodings
HmacSha256(key, message) == <<"hmac-sha256", key, message>>
HexEncode(digest) == <<"hex", digest>>
Base64Encode(bytes) == <<"base64", bytes>>

\* mutant of generateSignatureWithSalt: the salt is left out of toSign
SignatureWithoutSalt(c, method, endpoint, body, timestamp, salt) ==
    LET toSign == ToLower(method) \o endpoint \o timestamp
                  \o c.accessKey \o c.secretKey \o body
    IN Base64Encode(HexEncode(HmacSha256(c.secretKey, toSign)))

\* mutant of generateSignatureWithSalt: timestamp and salt change places
SignatureTimestampFirst(c, method, endpoint, body, timestamp, salt) ==
    LET toSign == ToLower(method) \o endpoint \o timestamp \o salt
                  \o c.accessKey \o c.secretKey \o body
    IN Base64Encode(HexEncode(HmacSha256(c.secretKey, toSign)))

\* generateSignatureWithSalt of the client c (access key, secret key)
generateSignatureWithSalt(c, method, endpoint, body, timestamp, salt) ==
    LET toSign == ToLower(method) \o endpoint \o salt \o timestamp
                  \o c.accessKey \o c.secretKey \o body
    IN Base64Encode(HexEncode(HmacSha256(c.secretKey, toSign)))

\* the inputs of one signature: the arguments and the client's two keys
SignInputs ==
    [method : {<<"G", "E", "T">>, <<"g", "e", "t">>, <<"p", "o", "s", "t">>},
     endpoint : {<<"/", "a">>, <<"/", "b">>},
     body : {<< >>, <<"{", "}">>},
     timestamp : {<<"1", "7">>, <<"1", "8">>},
     salt : {<<"s", "1">>, <<"s", "2">>},
     accessKey : {<<"a", "k">>, <<"a", "k", "2">>},
     secretKey : {<<"s", "k">>, <<"s", "k", "2">>}]

\* the inputs in which two signature calls differ
Differences(a, b) == {f \in DOMAIN a : a[f] # b[f]}

\* no request is being signed
NoRequests == [pc |-> "idle"]

\* the payloads of the client's requests: the checkout request of
\* CreateCheckout; GetCheckoutStatus and GetPaymentMethodsByCountry pass nil
Payloads == {[amount |-> "1"], [amount |-> "5"]}

\* json.Marshal of a payload
Marshal(payload) == <<"{", payload.amount, "}">>

\* what time.Now().Unix() and generateSalt may give
Timestamps == {<<"1", "7">>, <<"1", "8">>}
Salts == {<<"s", "1">>, <<"s", "2">>}

(* -------------------------------- Init -------------------------------- *)
Customer(c) ==
    [id |-> c, telegramID |-> TelegramID(c), subscriptionLink |-> NoStr,
     expireAt |-> 0]
Referral(granted) ==
    [id |-> 1, refereeID |-> TelegramID(BuyerId),
     referrerID |-> TelegramID(ReferrerId), bonusGranted |-> granted]

\* the row a finished CreatePurchase(amount, months, BuyerId, t) left as row 1:
\* Pending with the adapter's correlation fields, or New when the provider
\* call or the update failed
LeftByCreate(t, amount, months, pending) ==
    LET new == << NewPurchase(1, t, AdapterCurrency(t), amount, months, BuyerId) >>
    IN IF pending
       THEN PurchaseUpdateFields(new, 1,
                AdapterUpdates(t, ProviderId(t, 1), ProviderUrl(t, 1)))
       ELSE new

\* purchase tables holding the row of one earlier CreatePurchase: a Rapyd
\* purchase with or without its checkout, or a purchase of another provider
InitialLedgers ==
    {LeftByCreate(InvoiceTypeRapyd, amount, months, pending) :
        amount \in Amounts, months \in Months, pending \in BOOLEAN}
    \cup
    {LeftByCreate(InvoiceTypeCrypto, amount, months, TRUE) :
        amount \in Amounts, months \in Months}

\* everything but the purchase table, as the service finds it when it
\* starts; buyers says whether the buyer's customer row may be there or not
InitWith(buyers) ==
    /\ referral \in {NULL, Referral(FALSE), Referral(TRUE)}
    /\ \E hasReferrer \in BOOLEAN, hasBuyer \in buyers :
          /\ referral # Referral(FALSE) => hasReferrer
          /\ ~hasBuyer => referral = NULL
          /\ customers = [c \in CustomerIds |->
                             IF c = ReferrerId /\ ~hasReferrer THEN NULL
                             ELSE IF c = BuyerId /\ ~hasBuyer THEN NULL
                             ELSE Customer(c)]
    /\ remnawave = [c \in CustomerIds |-> 0]
    /\ grantCalls = [id \in PurchaseIds |-> 0]
    /\ bonusCalls = 0
    /\ pc = [p \in Procs |-> "idle"]
    /\ op = [p \in Procs |-> "none"]
    /\ arg = [p \in Procs |-> NoArg]
    /\ frame = [p \in Procs |-> EmptyFrame]
    /\ calls = [p \in Procs |-> NoCalls]
    /\ ret = [p \in Procs |-> NoRet]
    /\ nOps = 0
    /\ co = NoCheckout
    /\ cv = NoConvert
    /\ rq = NoRequests

\* the buyer is a customer of the shop
InitRest == InitWith({TRUE})

\* the service starts on an empty purchase table
Init == purchases = << >> /\ InitRest

\* the service starts on a table that holds one purchase awaiting payment;
\* the customer row of its buyer may have been deleted since
InitLedger == purchases \in InitialLedgers /\ InitWith(BOOLEAN)

\* two purchases of one buyer, both awaiting payment
TwoPurchases ==
    LET row == LeftByCreate(InvoiceTypeRapyd, 500, 1, TRUE)[1]
    IN << row, [row EXCEPT !.id = 2] >>

\* the service starts on a table that holds two purchases of the buyer
InitReferee == purchases = TwoPurchases /\ InitRest

(* ---------------------- CreatePurchase and adapters ------------------- *)
\* CreatePurchase: the dispatch and, inside the adapter, the insert of the
\* New row
CreatePurchase(p, amount, months, c, t) ==
    /\ Start(p, "CreatePurchase", 0, t)
    /\ calls' = [calls EXCEPT ![p] = NoCalls]
    /\ UNCHANGED <<customers, referral, remote>>
    /\ IF Adapter(t) = NoStr
       THEN /\ Return(p, Ret("", 0, FALSE, ErrUnknownType))
            /\ UNCHANGED purchases
       ELSE \E fail \in BOOLEAN :
              IF fail
              THEN /\ Return(p, Ret("", 0, FALSE, InsertFailure(Adapter(t))))
                   /\ UNCHANGED purchases
              ELSE /\ Len(purchases) < MaxPurchases
                   /\ purchases' = Append(purchases,
                          NewPurchase(Len(purchases) + 1, Adapter(t),
                                      AdapterCurrency(Adapter(t)),
                                      amount, months, c))
                   /\ Goto(p, "invoice",
                          [EmptyFrame EXCEPT !.purchaseId = Len(purchases) + 1])

\* the adapter's call to its payment provider
CreateInvoice(p) ==
    /\ pc[p] = "invoice"
    /\ Same(p)
    /\ Call(p, "create")
    /\ UNCHANGED <<ledger, remote>>
    /\ LET t == Adapter(arg[p].invoiceType)
           id == frame[p].purchaseId
       IN \E fail \in BOOLEAN :
            IF fail
            THEN IF ReturnsOnProviderError(t)
                 THEN Return(p, Ret("", 0, FALSE, ErrFailed))
                 ELSE Goto(p, "update",
                           [frame[p] EXCEPT !.err = ErrFailed, !.url = ""])
            ELSE Goto(p, "update",
                      [frame[p] EXCEPT !.extId = ProviderId(t, id),
                                       !.url = ProviderUrl(t, id)])

\* the adapter's update of the row: correlation fields, status Pending
UpdatePurchase(p) ==
    /\ pc[p] = "update"
    /\ Same(p)
    /\ UNCHANGED <<customers, referral, remote, calls>>
    /\ LET t == Adapter(arg[p].invoiceType)
           id == frame[p].purchaseId
       IN \E fail \in BOOLEAN :
            IF fail \/ ~PurchaseWritable(purchases, id)
            THEN /\ Return(p, Ret("", 0, FALSE,
                                  IF fail THEN ErrFailed ELSE ErrNoRows))
                 /\ UNCHANGED purchases
            ELSE /\ purchases' = PurchaseUpdateFields(purchases, id,
                          AdapterUpdates(t, frame[p].extId, frame[p].url))
                 /\ Return(p, Ret(frame[p].url, id, FALSE, NoErr))

(* ------------------------------ CancelPayment ------------------------- *)
\* FindById and the nil test
CancelPayment(p, id) ==
    /\ Start(p, "CancelPayment", id, NoStr)
    /\ calls' = [calls EXCEPT ![p] = NoCalls]
    /\ UNCHANGED <<ledger, remote>>
    /\ \E fail \in BOOLEAN :
         LET purchase == FindPurchaseById(purchases, id)
         IN IF fail \/ purchase = NULL
            THEN Return(p, Ret("", 0, FALSE,
                               IF fail THEN ErrFailed ELSE ErrNotFound))
            ELSE Goto(p, "cancel", [EmptyFrame EXCEPT !.purchaseId = id,
                                                      !.purchase = purchase])

\* mutant of CancelUpdates: the status written is Paid
CancelUpdatesMarkingPaid == [status |-> PurchaseStatusPaid]

\* mutant of CancelUpdates: the checkout's url is cleared with the status
CancelUpdatesClearingUrl ==
    [status |-> PurchaseStatusCancel, rapydURL |-> NoStr,
     cryptoInvoiceUrl |-> NoStr]

\* CancelPayment: purchaseFieldsToUpdate
CancelUpdates == [status |-> PurchaseStatusCancel]

\* UpdateFields: status Cancel
CancelUpdate(p) ==
    /\ pc[p] = "cancel"
    /\ Same(p)
    /\ UNCHANGED <<customers, referral, remote, calls>>
    /\ LET id == frame[p].purchaseId
       IN \E fail \in BOOLEAN :
            IF fail \/ ~PurchaseWritable(purchases, id)
            THEN /\ Return(p, Ret("", 0, FALSE,
                                  IF fail THEN ErrFailed ELSE ErrNoRows))
                 /\ UNCHANGED purchases
            ELSE /\ purchases' = PurchaseUpdateFields(purchases, id,
                                                      CancelUpdates)
                 /\ Return(p, Ret("", 0, FALSE, NoErr))

(* --------------------------- ProcessPurchaseById ---------------------- *)
\* mutant of Missing: the nil test is absent
NeverMissing(row) == FALSE

\* ProcessPurchaseById: the nil tests on the purchase and on its customer
Missing(row) == row = NULL

\* the referral step goes on to the referrer
Continue == "continue"

\* mutant of RefereeOutcome: the bonus-granted test is absent
RefereeOutcomeFlagIgnored(referee, failed) ==
    IF referee = NULL THEN NoErr
    ELSE IF failed THEN ErrFailed
    ELSE Continue

\* mutant of RefereeOutcome: a customer without referral record is an error
RefereeOutcomeAbsentIsError(referee, failed) ==
    IF referee = NULL THEN ErrNotFound
    ELSE IF referee.bonusGranted THEN NoErr
    ELSE IF failed THEN ErrFailed
    ELSE Continue

\* ProcessPurchaseById: the three tests after FindByReferee, in the code's
\* order (nil record, flag, error)
RefereeOutcome(referee, failed) ==
    IF referee = NULL THEN NoErr
    ELSE IF referee.bonusGranted THEN NoErr
    ELSE IF failed THEN ErrFailed
    ELSE Continue

\* purchaseRepository.FindById and the nil test
LoadPurchase(p, id) ==
    /\ UNCHANGED <<ledger, remote>>
    /\ \E fail \in BOOLEAN :
         LET purchase == FindPurchaseById(purchases, id)
         IN IF fail \/ Missing(purchase)
            THEN Activated(p, IF fail THEN ErrFailed ELSE ErrNotFound)
            ELSE Goto(p, "customer", [EmptyFrame EXCEPT !.purchaseId = id,
                                                        !.purchase = purchase])

\* a callback handler activates the purchase
ProcessPurchaseById(p, id) ==
    /\ Start(p, "ProcessPurchaseById", id, NoStr)
    /\ calls' = [calls EXCEPT ![p] = [NoCalls EXCEPT !.activate = 1]]
    /\ LoadPurchase(p, id)

\* customerRepository.FindById, the nil test and cache.Get: the prompt cache
\* is written by the bot's handlers, so an entry may or may not be there
LoadCustomer(p) ==
    /\ pc[p] = "customer"
    /\ Same(p)
    /\ UNCHANGED <<ledger, remote, calls>>
    /\ \E fail \in BOOLEAN, cached \in BOOLEAN :
         LET customer == FindCustomerById(customers, frame[p].purchase.customerID)
         IN IF fail \/ Missing(customer)
            THEN Activated(p, IF fail THEN ErrFailed ELSE ErrNotFound)
            ELSE Goto(p, IF cached THEN "prompt" ELSE "grant",
                      [frame[p] EXCEPT !.customer = customer])

\* mutant of DeletePrompt: a failed delete ends the activation
DeletePromptAborts(p) ==
    /\ pc[p] = "prompt"
    /\ Same(p)
    /\ UNCHANGED <<ledger, remote, calls>>
    /\ \E fail \in BOOLEAN :
         IF fail THEN Activated(p, ErrFailed)
         ELSE Goto(p, "grant", [frame[p] EXCEPT !.err = NoErr])

\* telegramBot.DeleteMessage of the cached prompt: an error is logged
DeletePrompt(p) ==
    /\ pc[p] = "prompt"
    /\ Same(p)
    /\ UNCHANGED <<ledger, remote, calls>>
    /\ \E fail \in BOOLEAN :
         Goto(p, "grant",
              [frame[p] EXCEPT !.err = IF fail THEN ErrFailed ELSE NoErr])

\* mutant of GrantEntitlement: the error of the call is not looked at
GrantEntitlementIgnoringError(p) ==
    /\ pc[p] = "grant"
    /\ Same(p)
    /\ Call(p, "grant")
    /\ grantCalls' = [grantCalls EXCEPT ![frame[p].purchase.id] = @ + 1]
    /\ UNCHANGED <<ledger, bonusCalls>>
    /\ \E fail \in BOOLEAN :
         LET c == frame[p].customer.id
             rw == CreateOrUpdateUser(remnawave, c,
                                      frame[p].purchase.month * DaysPerMonth)
         IN /\ remnawave' = IF fail THEN remnawave ELSE rw
            /\ Goto(p, "markPaid",
                    [frame[p] EXCEPT !.user = UserOf(remnawave', c),
                                     !.err = NoErr])

\* remnawaveClient.CreateOrUpdateUser for the buyer, purchase.Month*30 days
GrantEntitlement(p) ==
    /\ pc[p] = "grant"
    /\ Same(p)
    /\ Call(p, "grant")
    /\ grantCalls' = [grantCalls EXCEPT ![frame[p].purchase.id] = @ + 1]
    /\ UNCHANGED <<ledger, bonusCalls>>
    /\ \E fail \in BOOLEAN :
         LET c == frame[p].customer.id
             rw == CreateOrUpdateUser(remnawave, c,
                                      frame[p].purchase.month * DaysPerMonth)
         IN IF fail
            THEN /\ Activated(p, ErrFailed)
                 /\ UNCHANGED remnawave
            ELSE /\ remnawave' = rw
                 /\ Goto(p, "markPaid", [frame[p] EXCEPT !.user = UserOf(rw, c),
                                                         !.err = NoErr])

\* purchaseRepository.MarkAsPaid
MarkPaid(p) ==
    /\ pc[p] = "markPaid"
    /\ Same(p)
    /\ UNCHANGED <<customers, referral, remote, calls>>
    /\ LET id == frame[p].purchase.id
       IN \E fail \in BOOLEAN :
            IF fail \/ ~PurchaseWritable(purchases, id)
            THEN /\ Activated(p, IF fail THEN ErrFailed ELSE ErrNoRows)
                 /\ UNCHANGED purchases
            ELSE /\ purchases' = MarkAsPaid(purchases, id)
                 /\ Goto(p, "persist", frame[p])

\* customerRepository.UpdateFields: subscription_link, expire_at
PersistCustomer(p) ==
    /\ pc[p] = "persist"
    /\ Same(p)
    /\ UNCHANGED <<purchases, referral, remote, calls>>
    /\ \E fail \in BOOLEAN :
         IF fail
         THEN /\ Activated(p, ErrFailed)
              /\ UNCHANGED customers
         ELSE /\ customers' = CustomerUpdateFields(customers,
                     frame[p].customer.id, frame[p].user.subscriptionUrl,
                     frame[p].user.expireAt)
              /\ Goto(p, "notify", frame[p])

\* telegramBot.SendMessage: subscription_activated
NotifyCustomer(p) ==
    /\ pc[p] = "notify"
    /\ Same(p)
    /\ Call(p, "send")
    /\ UNCHANGED <<ledger, remote>>
    /\ \E fail \in BOOLEAN :
         IF fail
         THEN Activated(p, ErrFailed)
         ELSE Goto(p, "referee", frame[p])

\* referralRepository.FindByReferee and the three tests that follow it
LoadReferee(p) ==
    /\ pc[p] = "referee"
    /\ Same(p)
    /\ UNCHANGED <<ledger, remote, calls>>
    /\ \E fail \in BOOLEAN :
         LET referee == IF fail THEN NULL
                        ELSE FindByReferee(referral, frame[p].customer.telegramID)
             outcome == RefereeOutcome(referee, fail)
         IN IF outcome # Continue
            THEN Activated(p, outcome)
            ELSE Goto(p, "referrer", [frame[p] EXCEPT !.referee = referee])

\* customerRepository.FindByTelegramId(referee.ReferrerID)
LoadReferrer(p) ==
    /\ pc[p] = "referrer"
    /\ Same(p)
    /\ UNCHANGED <<ledger, remote, calls>>
    /\ \E fail \in BOOLEAN :
         IF fail
         THEN Activated(p, ErrFailed)
         ELSE Goto(p, "bonus",
                   [frame[p] EXCEPT !.refCustomer =
                       FindCustomerByTelegramId(customers,
                                                frame[p].referee.referrerID)])

\* remnawaveClient.CreateOrUpdateUser for the referrer; the referrer's
\* record is dereferenced without a nil test
GrantBonus(p) ==
    /\ pc[p] = "bonus"
    /\ Same(p)
    /\ UNCHANGED <<ledger, grantCalls>>
    /\ IF frame[p].refCustomer = NULL
       THEN /\ Activated(p, ErrPanic)
            /\ UNCHANGED <<remnawave, bonusCalls, calls>>
       ELSE /\ Call(p, "bonus")
            /\ bonusCalls' = bonusCalls + 1
            /\ \E fail \in BOOLEAN :
                 LET c == frame[p].refCustomer.id
                     rw == CreateOrUpdateUser(remnawave, c, ReferralDays)
                 IN IF fail
                    THEN /\ Activated(p, ErrFailed)
                         /\ UNCHANGED remnawave
                    ELSE /\ remnawave' = rw
                         /\ Goto(p, "persistBonus",
                                 [frame[p] EXCEPT !.user = UserOf(rw, c)])

\* mutant of PersistReferrer: the update is keyed by the buyer's id
PersistReferrerAsCustomer(p) ==
    /\ pc[p] = "persistBonus"
    /\ Same(p)
    /\ UNCHANGED <<purchases, referral, remote, calls>>
    /\ \E fail \in BOOLEAN :
         IF fail
         THEN /\ Activated(p, ErrFailed)
              /\ UNCHANGED customers
         ELSE /\ customers' = CustomerUpdateFields(customers,
                     frame[p].customer.id, frame[p].user.subscriptionUrl,
                     frame[p].user.expireAt)
              /\ Goto(p, "markBonus", frame[p])

\* mutant of PersistReferrer: the error of the update is not looked at
PersistReferrerIgnoringError(p) ==
    /\ pc[p] = "persistBonus"
    /\ Same(p)
    /\ UNCHANGED <<purchases, referral, remote, calls>>
    /\ \E fail \in BOOLEAN :
         /\ customers' = IF fail THEN customers
                         ELSE CustomerUpdateFields(customers,
                                  frame[p].refCustomer.id,
                                  frame[p].user.subscriptionUrl,
                                  frame[p].user.expireAt)
         /\ Goto(p, "markBonus", frame[p])

\* customerRepository.UpdateFields for the referrer
PersistReferrer(p) ==
    /\ pc[p] = "persistBonus"
    /\ Same(p)
    /\ UNCHANGED <<purchases, referral, remote, calls>>
    /\ \E fail \in BOOLEAN :
         IF fail
         THEN /\ Activated(p, ErrFailed)
              /\ UNCHANGED customers
         ELSE /\ customers' = CustomerUpdateFields(customers,
                     frame[p].refCustomer.id, frame[p].user.subscriptionUrl,
                     frame[p].user.expireAt)
              /\ Goto(p, "markBonus", frame[p])

\* referralRepository.MarkBonusGranted
SetBonusGranted(p) ==
    /\ pc[p] = "markBonus"
    /\ Same(p)
    /\ UNCHANGED <<purchases, customers, remote, calls>>
    /\ \E fail \in BOOLEAN :
         IF fail
         THEN /\ Activated(p, ErrFailed)
              /\ UNCHANGED referral
         ELSE /\ referral' = MarkBonusGranted(referral)
              /\ Goto(p, "notifyBonus", frame[p])

\* telegramBot.SendMessage: referral_bonus_granted; its error is dropped
NotifyReferrer(p) ==
    /\ pc[p] = "notifyBonus"
    /\ Same(p)
    /\ Call(p, "send")
    /\ UNCHANGED <<ledger, remote>>
    /\ Activated(p, NoErr)

(* ------------------------ CheckRapydPaymentStatus --------------------- *)
\* FindById and the tests before the remote call
CheckRapydPaymentStatus(p, id) ==
    /\ Start(p, "CheckRapydPaymentStatus", id, NoStr)
    /\ calls' = [calls EXCEPT ![p] = NoCalls]
    /\ UNCHANGED <<ledger, remote>>
    /\ \E fail \in BOOLEAN :
         LET purchase == FindPurchaseById(purchases, id)
         IN IF fail
            THEN Return(p, Ret("", 0, FALSE, ErrFind))
            ELSE IF purchase = NULL
            THEN Return(p, Ret("", 0, FALSE, ErrNotFound))
            ELSE IF NotRapyd(purchase)
            THEN Return(p, Ret("", 0, FALSE, ErrNotRapyd))
            ELSE IF AlreadyPaid(purchase)
            THEN Return(p, Ret("", 0, TRUE, NoErr))
            ELSE IF NoCheckoutID(purchase)
            THEN Return(p, Ret("", 0, FALSE, ErrNoCheckoutID))
            ELSE Goto(p, "status", [EmptyFrame EXCEPT !.purchaseId = id,
                                                      !.purchase = purchase])

\* rapydClient.GetCheckoutStatus: the checkout's status and, when it has a
\* payment, the payment's status
GetCheckoutStatus(p) ==
    /\ pc[p] = "status"
    /\ Same(p)
    /\ Call(p, "status")
    /\ UNCHANGED <<ledger, remote>>
    /\ \E fail \in BOOLEAN, status \in CheckoutStatuses,
          payment \in PaymentStatuses :
         IF fail
         THEN Return(p, Ret("", 0, FALSE, ErrStatus))
         ELSE Goto(p, "activate", [frame[p] EXCEPT !.status = status,
                                                   !.payment = payment])

\* the classification of the answer and, when paid, the call of
\* ProcessPurchaseById
CheckActivate(p) ==
    /\ pc[p] = "activate"
    /\ Same(p)
    /\ IF IsPaid(frame[p].status, frame[p].payment)
       THEN /\ Call(p, "activate")
            /\ LoadPurchase(p, arg[p].purchaseId)
       ELSE /\ Return(p, Ret("", 0, FALSE, NoErr))
            /\ UNCHANGED <<ledger, remote, calls>>

(* -------------------------------- Next -------------------------------- *)
Next ==
    \E p \in Procs :
        \/ \E amount \in Amounts, months \in Months, t \in InvoiceTypes :
              CreatePurchase(p, amount, months, BuyerId, t)
        \/ CreateInvoice(p)
        \/ UpdatePurchase(p)
        \/ \E id \in PurchaseIds : CancelPayment(p, id)
        \/ CancelUpdate(p)
        \/ \E id \in PurchaseIds : ProcessPurchaseById(p, id)
        \/ LoadCustomer(p)
        \/ DeletePrompt(p)
        \/ GrantEntitlement(p)
        \/ MarkPaid(p)
        \/ PersistCustomer(p)
        \/ NotifyCustomer(p)
        \/ LoadReferee(p)
        \/ LoadReferrer(p)
        \/ GrantBonus(p)
        \/ PersistReferrer(p)
        \/ SetBonusGranted(p)
        \/ NotifyReferrer(p)
        \/ \E id \in PurchaseIds : CheckRapydPaymentStatus(p, id)
        \/ GetCheckoutStatus(p)
        \/ CheckActivate(p)

\* reconciliation only: no new purchase is created
NextLedger ==
    \E p \in Procs :
        \/ \E id \in PurchaseIds : CancelPayment(p, id)
        \/ CancelUpdate(p)
        \/ \E id \in PurchaseIds : ProcessPurchaseById(p, id)
        \/ LoadCustomer(p)
        \/ DeletePrompt(p)
        \/ GrantEntitlement(p)
        \/ MarkPaid(p)
        \/ PersistCustomer(p)
        \/ NotifyCustomer(p)
        \/ LoadReferee(p)
        \/ LoadReferrer(p)
        \/ GrantBonus(p)
        \/ PersistReferrer(p)
        \/ SetBonusGranted(p)
        \/ NotifyReferrer(p)
        \/ \E id \in PurchaseIds : CheckRapydPaymentStatus(p, id)
        \/ GetCheckoutStatus(p)
        \/ CheckActivate(p)

\* the whole lifecycle, from an empty purchase table
Spec == Init /\ [][Next]_vars

\* reconciliation of a purchase created earlier
SpecLedger == InitLedger /\ [][NextLedger]_vars

\* callbacks and polls for two purchases of one referee
SpecReferee == InitReferee /\ [][NextLedger]_vars

(* ----------------------- Rapyd client: CreateCheckout ----------------- *)
\* entry: the default currency and the choice of the candidate list
CreateCheckout ==
    /\ co.pc = "start"
    /\ co' = [co EXCEPT !.pc = "loop",
                        !.currency = IF @ = "" THEN "USD" ELSE @,
                        !.idx = 1]
    /\ UNCHANGED <<service, cv, rq>>

\* one iteration of the loop: GetPaymentMethodsByCountry(country, currency)
GetPaymentMethodsByCountry ==
    /\ co.pc = "loop"
    /\ \E resp \in Responses :
          co' = [co EXCEPT !.pc = "filter", !.resp = resp,
                           !.nQueries = @ + 1,
                           !.lastQuery = <<CountriesToTry(co.currency)[co.idx],
                                           co.currency>>]
    /\ UNCHANGED <<service, cv, rq>>

\* the rest of the iteration: skip on error, filter, break on a match
SelectCountry ==
    /\ co.pc = "filter"
    /\ LET list == CountriesToTry(co.currency)
       IN IF ~co.resp.err /\ HasActiveCard(co.resp.data)
          THEN co' = [co EXCEPT !.pc = "request", !.resp = NoResponse,
                                !.selectedCountry = list[co.idx]]
          ELSE co' = [co EXCEPT !.pc = IF co.idx < Len(list) THEN "loop"
                                       ELSE "fallback",
                                !.resp = NoResponse,
                                !.idx = @ + 1]
    /\ UNCHANGED <<service, cv, rq>>

\* no country matched and the currency is USD: the DE/EUR query and, when
\* it succeeds, the conversion
FallbackQuery ==
    /\ co.pc = "fallback" /\ co.currency = "USD"
    /\ \E failed \in BOOLEAN :
          IF ~failed
          THEN co' = [co EXCEPT !.pc = "request",
                                !.nQueries = @ + 1,
                                !.lastQuery = <<"DE", "EUR">>,
                                !.amount = UsdToEur(@),
                                !.currency = "EUR",
                                !.selectedCountry = "DE"]
          ELSE co' = [co EXCEPT !.pc = "final",
                                !.nQueries = @ + 1,
                                !.lastQuery = <<"DE", "EUR">>]
    /\ UNCHANGED <<service, cv, rq>>

\* mutant of FinalFallback: without a country the call gives up
FinalFallbackAborts ==
    /\ \/ co.pc = "final"
       \/ co.pc = "fallback" /\ co.currency # "USD"
    /\ co' = [co EXCEPT !.pc = "done", !.err = ErrFailed]
    /\ UNCHANGED <<service, cv, rq>>

\* still no country: the final fallback
FinalFallback ==
    /\ \/ co.pc = "final"
       \/ co.pc = "fallback" /\ co.currency # "USD"
    /\ co' = [co EXCEPT !.pc = "request",
                        !.selectedCountry = FallbackCountry,
                        !.currency = FallbackCurrency]
    /\ UNCHANGED <<service, cv, rq>>

\* the request is built and posted to /v1/checkout
PostCheckout ==
    /\ co.pc = "request"
    /\ \E failed \in BOOLEAN :
          co' = [co EXCEPT !.pc = "done",
                           !.request = [amount |-> co.amount,
                                        currency |-> co.currency,
                                        country |-> co.selectedCountry],
                           !.err = IF failed THEN ErrFailed ELSE NoErr]
    /\ UNCHANGED <<service, cv, rq>>

\* the payment service with no purchase and no request in progress
IdleService ==
    /\ purchases = << >>
    /\ referral = NULL
    /\ customers = [c \in CustomerIds |-> Customer(c)]
    /\ remnawave = [c \in CustomerIds |-> 0]
    /\ grantCalls = [id \in PurchaseIds |-> 0]
    /\ bonusCalls = 0
    /\ pc = [p \in Procs |-> "idle"]
    /\ op = [p \in Procs |-> "none"]
    /\ arg = [p \in Procs |-> NoArg]
    /\ frame = [p \in Procs |-> EmptyFrame]
    /\ calls = [p \in Procs |-> NoCalls]
    /\ ret = [p \in Procs |-> NoRet]
    /\ nOps = 0

\* CreateCheckout(amount, currency, ...) is called on an idle service
InitCheckout ==
    /\ IdleService
    /\ cv = NoConvert
    /\ rq = NoRequests
    /\ \E amount \in CheckoutAmounts, currency \in Currencies :
          co = [NoCheckout EXCEPT !.pc = "start", !.reqAmount = amount,
                                  !.reqCurrency = currency, !.amount = amount,
                                  !.currency = currency]

NextCheckout ==
    \/ CreateCheckout
    \/ GetPaymentMethodsByCountry
    \/ SelectCountry
    \/ FallbackQuery
    \/ FinalFallback
    \/ PostCheckout

\* the call is sequential code, each of whose remote calls returns (with an
\* answer or an error): a call that can go on does go on
SpecCheckout == InitCheckout /\ [][NextCheckout]_vars /\ WF_vars(NextCheckout)

(* ----------------------- convertAmountToCurrency --------------------- *)
\* createRapydInvoice converts the price for the currency chosen
ConvertAmount ==
    /\ cv.pc = "call"
    /\ cv' = [cv EXCEPT !.pc = "done",
                        !.result = convertAmountToCurrency(cv.amountUSD,
                                                           cv.currency)]
    /\ UNCHANGED <<service, co, rq>>

InitConvert ==
    /\ IdleService
    /\ co = NoCheckout
    /\ rq = NoRequests
    /\ \E amountUSD \in 0..MaxAmount, currency \in ConvertCurrencies :
          cv = [NoConvert EXCEPT !.pc = "call", !.amountUSD = amountUSD,
                                 !.currency = currency]

NextConvert == ConvertAmount

SpecConvert == InitConvert /\ [][NextConvert]_vars

(* -------------------------- request signature ------------------------- *)
\* makeRequestRaw signs its request; two requests are signed side by side
SignRequests ==
    /\ rq.pc = "call"
    /\ LET Sign(in) ==
               generateSignatureWithSalt(
                   [accessKey |-> in.accessKey, secretKey |-> in.secretKey],
                   in.method, in.endpoint, in.body, in.timestamp, in.salt)
       IN rq' = [rq EXCEPT !.pc = "done", !.sigA = Sign(rq.a),
                           !.sigB = Sign(rq.b)]
    /\ UNCHANGED <<service, co, cv>>

\* two signature calls with the same inputs, or differing in one of them
InitSign ==
    /\ IdleService
    /\ co = NoCheckout
    /\ cv = NoConvert
    /\ \E a \in SignInputs, b \in SignInputs :
          /\ Cardinality(Differences(a, b)) <= 1
          /\ rq = [pc |-> "call", a |-> a, b |-> b, sigA |-> << >>,
                   sigB |-> << >>]

NextSign == SignRequests

SpecSign == InitSign /\ [][NextSign]_vars

(* ----------------------- Rapyd client: makeRequestRaw ----------------- *)
\* mutant of makeRequestRaw: for a nil payload the signature is the one of
\* the marshalled nil
makeRequestRawSigningNull ==
    /\ rq.pc = "call"
    /\ UNCHANGED <<service, co, cv>>
    /\ \E marshalFails \in BOOLEAN, timestamp \in Timestamps, salt \in Salts :
         IF rq.payload # NULL /\ marshalFails
         THEN rq' = [rq EXCEPT !.pc = "failed"]
         ELSE LET bodyString == IF rq.payload # NULL THEN Marshal(rq.payload)
                                ELSE << >>
                  signature == generateSignatureWithSalt(
                                   [accessKey |-> rq.accessKey,
                                    secretKey |-> rq.secretKey],
                                   rq.method, rq.endpoint, IF rq.payload # NULL THEN bodyString
                                   ELSE <<"n", "u", "l", "l">>,
                                   timestamp, salt)
              IN rq' = [rq EXCEPT
                          !.pc = "sent",
                          !.body = bodyString,
                          !.headers =
                              [h \in {"Content-Type", "access_key", "signature",
                                      "timestamp", "salt"} |->
                                 CASE h = "Content-Type" ->
                                        <<"application/json">>
                                   [] h = "access_key" -> rq.accessKey
                                   [] h = "signature" -> signature
                                   [] h = "timestamp" -> timestamp
                                   [] h = "salt" -> salt]]

\* makeRequestRaw: the body, the timestamp and the salt, the signature, the
\* headers, and the request handed to the http client
makeRequestRaw ==
    /\ rq.pc = "call"
    /\ UNCHANGED <<service, co, cv>>
    /\ \E marshalFails \in BOOLEAN, timestamp \in Timestamps, salt \in Salts :
         IF rq.payload # NULL /\ marshalFails
         THEN rq' = [rq EXCEPT !.pc = "failed"]
         ELSE LET bodyString == IF rq.payload # NULL THEN Marshal(rq.payload)
                                ELSE << >>
                  signature == generateSignatureWithSalt(
                                   [accessKey |-> rq.accessKey,
                                    secretKey |-> rq.secretKey],
                                   rq.method, rq.endpoint, bodyString,
                                   timestamp, salt)
              IN rq' = [rq EXCEPT
                          !.pc = "sent",
                          !.body = bodyString,
                          !.headers =
                              [h \in {"Content-Type", "access_key", "signature",
                                      "timestamp", "salt"} |->
                                 CASE h = "Content-Type" ->
                                        <<"application/json">>
                                   [] h = "access_key" -> rq.accessKey
                                   [] h = "signature" -> signature
                                   [] h = "timestamp" -> timestamp
                                   [] h = "salt" -> salt]]

\* one request of the client: its method, endpoint and payload, and the
\* client's keys
InitRequest ==
    /\ IdleService
    /\ co = NoCheckout
    /\ cv = NoConvert
    /\ \E method \in {<<"G", "E", "T">>, <<"P", "O", "S", "T">>},
          endpoint \in {<<"/", "a">>, <<"/", "b">>},
          payload \in Payloads \cup {NULL},
          accessKey \in {<<"a", "k">>, <<"a", "k", "2">>},
          secretKey \in {<<"s", "k">>, <<"s", "k", "2">>} :
          rq = [pc |-> "call", method |-> method, endpoint |-> endpoint,
                payload |-> payload, accessKey |-> accessKey,
                secretKey |-> secretKey, body |-> << >>, headers |-> << >>]

NextRequest == makeRequestRaw

SpecRequest == InitRequest /\ [][NextRequest]_vars

(* ================================ claims =============================== *)
\* the step with which worker p takes up a new request
Started(p) == arg'[p].req # arg[p].req

OpCreate == "CreatePurchase"
OpProcess == "ProcessPurchaseById"
OpCheck == "CheckRapydPaymentStatus"

\* C1: whatever the interleaving of activations of one purchase (a retried
\* callback, concurrent polls), at most one CreateOrUpdateUser call is made
\* for the buyer of that purchase.
C1_AtMostOneGrantCall == \A id \in PurchaseIds : grantCalls[id] <= 1

\* C2: a ProcessPurchaseById that finds its purchase already Paid makes no
\* CreateOrUpdateUser call for the buyer.
C2_NoGrantWhenAlreadyPaid ==
    \A p \in Procs :
        ( /\ pc[p] \notin {"idle", "done"}
          /\ calls[p].activate = 1
          /\ frame[p].purchase # NULL
          /\ frame[p].purchase.status = PurchaseStatusPaid )
        => calls[p].grant = 0

CorrelationPopulated(row) ==
    LET set(v) == v # NoStr /\ v # ""
    IN CASE row.invoiceType = InvoiceTypeCrypto ->
                set(row.cryptoInvoiceID) /\ set(row.cryptoInvoiceUrl)
         [] row.invoiceType = InvoiceTypeYookasa ->
                set(row.yookasaID) /\ set(row.yookasaUrl)
         [] row.invoiceType = InvoiceTypeRapyd ->
                set(row.rapydCheckoutID) /\ set(row.rapydURL)
         [] OTHER -> TRUE

\* C5: a CreatePurchase of a supported invoice type that returns no error
\* returns a non-empty URL and the id of the row it inserted, and that row
\* has left New with its type's correlation fields populated.
C5_CreateYieldsPendingRowAndUrl ==
    \A p \in Procs :
        ( /\ op[p] = OpCreate /\ pc[p] = "done"
          /\ arg[p].invoiceType \in SupportedInvoiceTypes
          /\ ret[p].err = NoErr )
        => /\ ret[p].url # ""
           /\ ret[p].purchaseId \in DOMAIN purchases
           /\ purchases[ret[p].purchaseId].status # PurchaseStatusNew
           /\ purchases[ret[p].purchaseId].invoiceType = arg[p].invoiceType
           /\ CorrelationPopulated(purchases[ret[p].purchaseId])

\* C6: in every adapter, when the provider call failed or the update that
\* follows it fails, CreatePurchase returns an error and leaves the row as
\* it is: it is not moved to Pending after a failed provider call.
C6_FailureLeavesRowNew ==
    [][\A p \in Procs :
          ( /\ op[p] = OpCreate /\ pc'[p] = "done"
            /\ \/ pc[p] = "invoice"
               \/ pc[p] = "update" /\ frame[p].err # NoErr
               \/ pc[p] = "update" /\ purchases' = purchases )
          => (ret'[p].err # NoErr /\ purchases' = purchases)]_vars

\* C7: CreatePurchase with an invoice type that has no adapter returns an
\* error at once: no row is inserted and no payment provider is called.
C7_UnknownTypeFailsBeforeIO ==
    [][\A p \in Procs :
          (op'[p] = OpCreate /\ arg'[p].invoiceType \notin SupportedInvoiceTypes)
          => /\ pc'[p] = "done"
             /\ ret'[p].err # NoErr
             /\ calls'[p] = NoCalls
             /\ Started(p) => purchases' = purchases]_vars

\* C7 witness: a request with the tribute type was turned down.
C7_Witness ==
    \E p \in Procs :
        /\ op[p] = OpCreate /\ arg[p].invoiceType = InvoiceTypeTribute
        /\ pc[p] = "done" /\ ret[p].err = ErrUnknownType
        /\ \A id \in DOMAIN purchases :
              purchases[id].invoiceType \in SupportedInvoiceTypes

\* C8: CheckRapydPaymentStatus on a Rapyd purchase that is Paid (the lookup
\* succeeding) returns (true, nil) at once: no status call, no entitlement
\* call, no state change.
C8_PaidPollShortCircuits ==
    [][\A p \in Procs :
          LET id == arg'[p].purchaseId
          IN ( /\ Started(p) /\ op'[p] = OpCheck
               /\ id \in DOMAIN purchases
               /\ purchases[id].invoiceType = InvoiceTypeRapyd
               /\ purchases[id].status = PurchaseStatusPaid
               /\ ~(pc'[p] = "done" /\ ret'[p].err = ErrFind) )
             => /\ pc'[p] = "done"
                /\ ret'[p] = Ret("", 0, TRUE, NoErr)
                /\ calls'[p] = NoCalls
                /\ UNCHANGED <<ledger, remote>>]_vars

\* C8 witness: a poll of a Paid Rapyd purchase answered true without a call.
C8_Witness ==
    \E p \in Procs :
        /\ op[p] = OpCheck /\ pc[p] = "done"
        /\ ret[p] = Ret("", 0, TRUE, NoErr) /\ calls[p] = NoCalls
        /\ arg[p].purchaseId \in DOMAIN purchases
        /\ purchases[arg[p].purchaseId].status = PurchaseStatusPaid

\* C9: CheckRapydPaymentStatus on a Rapyd purchase that is not Paid and has
\* no checkout id (nil or empty) returns false with an error at once: no
\* status call, no activation, no state change.
C9_NoCheckoutIdIsAnError ==
    [][\A p \in Procs :
          LET id == arg'[p].purchaseId
          IN ( /\ Started(p) /\ op'[p] = OpCheck
               /\ id \in DOMAIN purchases
               /\ purchases[id].invoiceType = InvoiceTypeRapyd
               /\ purchases[id].status # PurchaseStatusPaid
               /\ purchases[id].rapydCheckoutID \in {NoStr, ""} )
             => /\ pc'[p] = "done"
                /\ ret'[p].paid = FALSE
                /\ ret'[p].err # NoErr
                /\ calls'[p] = NoCalls
                /\ UNCHANGED <<ledger, remote>>]_vars

\* C9 witness: a poll of a Rapyd purchase without checkout id was refused.
C9_Witness ==
    \E p \in Procs :
        /\ op[p] = OpCheck /\ pc[p] = "done"
        /\ ret[p] = Ret("", 0, FALSE, ErrNoCheckoutID) /\ calls[p] = NoCalls
        /\ purchases[arg[p].purchaseId].rapydCheckoutID = NoStr

\* C10: the poll takes a checkout as paid exactly when its status is
\* COMPLETED or it has a payment whose status is CLO; when paid it calls
\* ProcessPurchaseById once, and returns (true, nil) when that call returned
\* nil and (false, error) when it returned an error; when not paid it
\* returns (false, nil) without activating. (A call that panics does not
\* return: the poll unwinds with it.)
C10_PaidClassification ==
    [][\A p \in Procs :
          /\ calls'[p].activate <= 1
          /\ (pc[p] = "activate" /\ pc'[p] # "activate")
             => IF \/ frame[p].status = "COMPLETED"
                   \/ (frame[p].payment # NoStr /\ frame[p].payment = "CLO")
                THEN /\ calls'[p].activate = 1
                     /\ \/ pc'[p] = "customer"
                        \/ pc'[p] = "done" /\ ret'[p] = Ret("", 0, FALSE, ErrProcess)
                ELSE /\ calls'[p].activate = 0
                     /\ pc'[p] = "done"
                     /\ ret'[p] = Ret("", 0, FALSE, NoErr)
                     /\ UNCHANGED <<ledger, remote>>
          /\ ( /\ op[p] = OpCheck /\ calls[p].activate = 1
               /\ pc[p] # "done" /\ pc'[p] = "done"
               /\ ret'[p].err # ErrPanic )
             => ret'[p] = IF pc[p] \in {"referee", "notifyBonus"}
                          THEN Ret("", 0, TRUE, NoErr)
                          ELSE Ret("", 0, FALSE, ErrProcess)]_vars

\* C10 witness: a poll saw a paid checkout, activated the purchase and
\* answered true.
C10_Witness ==
    \E p \in Procs :
        /\ op[p] = OpCheck /\ pc[p] = "done"
        /\ ret[p] = Ret("", 0, TRUE, NoErr)
        /\ calls[p].status = 1 /\ calls[p].activate = 1 /\ calls[p].grant = 1
        /\ purchases[arg[p].purchaseId].status = PurchaseStatusPaid

\* the step is one of worker p
StepOf(p) == pc'[p] # pc[p] \/ Started(p)

\* C11: when the provider reports a checkout that is not paid, the poll
\* returns (false, nil), and no step of a poll that has not called
\* ProcessPurchaseById changes a purchase, a customer or the referral record.
C11_UnpaidPollChangesNothing ==
    [][\A p \in Procs :
          /\ ( /\ pc[p] = "activate" /\ StepOf(p)
               /\ frame[p].status # "COMPLETED"
               /\ frame[p].payment # "CLO" )
             => /\ pc'[p] = "done"
                /\ ret'[p] = Ret("", 0, FALSE, NoErr)
                /\ calls'[p].activate = 0 /\ calls'[p].grant = 0
          /\ ( /\ StepOf(p) /\ op'[p] = OpCheck /\ calls'[p].activate = 0 )
             => UNCHANGED <<ledger, remote>>]_vars

\* C11 witness: a poll asked the provider, was told the checkout is still
\* open and answered (false, nil); the purchase is as it was.
C11_Witness ==
    \E p \in Procs :
        /\ op[p] = OpCheck /\ pc[p] = "done"
        /\ ret[p] = Ret("", 0, FALSE, NoErr)
        /\ calls[p].status = 1 /\ calls[p].activate = 0
        /\ purchases[arg[p].purchaseId].status = PurchaseStatusPending

\* C12: a poll of a purchase that does not exist, or that is not a Rapyd
\* purchase (Paid or not), returns false with an error at once: no remote
\* call, no activation, no state change.
C12_AbsentOrForeignPurchaseIsAnError ==
    [][\A p \in Procs :
          LET id == arg'[p].purchaseId
          IN ( /\ Started(p) /\ op'[p] = OpCheck
               /\ \/ id \notin DOMAIN purchases
                  \/ purchases[id].invoiceType # InvoiceTypeRapyd )
             => /\ pc'[p] = "done"
                /\ ret'[p].paid = FALSE
                /\ ret'[p].err # NoErr
                /\ calls'[p] = NoCalls
                /\ UNCHANGED <<ledger, remote>>]_vars

\* C12 witness: a poll of a Paid purchase of another provider was refused
\* as not being a Rapyd payment.
C12_Witness ==
    \E p \in Procs :
        /\ op[p] = OpCheck /\ pc[p] = "done"
        /\ ret[p] = Ret("", 0, FALSE, ErrNotRapyd) /\ calls[p] = NoCalls
        /\ purchases[arg[p].purchaseId].invoiceType = InvoiceTypeCrypto
        /\ purchases[arg[p].purchaseId].status = PurchaseStatusPaid

\* C12 second case reached: a poll of a purchase id that is not in the table
C12_AbsentReached ==
    \E p \in Procs :
        /\ op[p] = OpCheck /\ pc[p] = "done"
        /\ ret[p].err = ErrNotFound
        /\ arg[p].purchaseId \notin DOMAIN purchases

\* C13: the bonus-granted flag of a referral never goes from true to false,
\* an activation that finds the flag true makes no CreateOrUpdateUser call
\* for the referrer, and such a call is made only by an activation whose
\* lookup found the flag false.
C13_BonusFlagIsMonotone ==
    [][/\ (referral # NULL /\ referral.bonusGranted)
          => (referral' # NULL /\ referral'.bonusGranted)
       /\ bonusCalls' # bonusCalls
          => \E p \in Procs : /\ pc[p] = "bonus"
                              /\ ~frame[p].referee.bonusGranted
                              /\ calls'[p].bonus = calls[p].bonus + 1
       /\ \A p \in Procs :
             ( /\ pc[p] = "referee" /\ StepOf(p)
               /\ referral # NULL /\ referral.bonusGranted
               /\ referral.refereeID = frame[p].customer.telegramID )
             => /\ pc'[p] = "done"
                /\ calls'[p].bonus = 0
                /\ bonusCalls' = bonusCalls
                /\ remnawave' = remnawave]_vars

\* C13 witness: an activation of a referee whose bonus had been granted
\* before finished without a call for the referrer.
C13_Witness ==
    \E p \in Procs :
        /\ op[p] = OpProcess /\ pc[p] = "done" /\ ret[p].err = NoErr
        /\ calls[p].grant = 1 /\ calls[p].send = 1 /\ calls[p].bonus = 0
        /\ referral = Referral(TRUE) /\ bonusCalls = 0

\* C14: whatever the interleaving of activations that concern one referee
\* (duplicate signals for one purchase, two purchases of the referee), at
\* most one CreateOrUpdateUser call is made for the referrer.
C14_AtMostOneBonusCall == bonusCalls <= 1

\* C15: when the activated customer has no referral record, or its
\* bonus-granted flag is true, the referral step does nothing: the
\* activation returns success at once, with no further call and no write.
C15_NoReferralIsNoOp ==
    [][\A p \in Procs :
          ( /\ pc[p] = "referee" /\ StepOf(p)
            /\ \/ FindByReferee(referral, frame[p].customer.telegramID) = NULL
               \/ referral.bonusGranted )
          => /\ pc'[p] = "done"
             /\ ret'[p].err = NoErr
             /\ op[p] = OpCheck => ret'[p].paid
             /\ calls'[p] = calls[p]
             /\ UNCHANGED <<ledger, remote>>]_vars

\* C15 witness: an activation of a customer nobody referred returned
\* success after the customer's own notification, the referrer untouched.
C15_Witness ==
    \E p \in Procs :
        /\ op[p] = OpProcess /\ pc[p] = "done" /\ ret[p].err = NoErr
        /\ calls[p].grant = 1 /\ calls[p].send = 1 /\ calls[p].bonus = 0
        /\ referral = NULL /\ bonusCalls = 0
        /\ customers[ReferrerId] # NULL /\ customers[ReferrerId].expireAt = 0

\* C16: a referral step that fails (the referrer's lookup, extension or
\* update, the flag's write) makes ProcessPurchaseById return an error, and
\* no referral step touches a purchase or the buyer's customer row: the
\* purchase is Paid and the buyer keeps the link and expiry granted.
C16_ReferralFailureKeepsActivation ==
    [][\A p \in Procs :
          ( /\ StepOf(p)
            /\ pc[p] \in {"referrer", "bonus", "persistBonus", "markBonus"} )
          => /\ purchases' = purchases
             /\ purchases[frame[p].purchaseId].status = PurchaseStatusPaid
             /\ customers'[BuyerId] = customers[BuyerId]
             /\ customers[BuyerId].subscriptionLink # NoStr
             /\ customers[BuyerId].expireAt >= DaysPerMonth
             /\ (pc'[p] = "done" /\ ~(pc[p] = "bonus" /\ frame[p].refCustomer = NULL))
                => /\ ret'[p].err # NoErr
                   /\ ~ret'[p].paid]_vars

\* C16 witness: an activation failed after its call for the referrer; the
\* purchase is Paid, the buyer has the subscription, the bonus is not set.
C16_Witness ==
    \E p \in Procs :
        /\ op[p] = OpProcess /\ pc[p] = "done" /\ ret[p].err = ErrFailed
        /\ calls[p].bonus = 1
        /\ purchases[arg[p].purchaseId].status = PurchaseStatusPaid
        /\ customers[BuyerId].expireAt = DaysPerMonth
        /\ referral = Referral(FALSE)

\* C17: ProcessPurchaseById on a purchase that does not exist, or whose
\* customer does not exist, returns an error without an entitlement call,
\* without sending or deleting a message and without any state change.
C17_MissingPurchaseOrCustomer ==
    [][\A p \in Procs :
          /\ ( /\ Started(p) /\ op'[p] = OpProcess
               /\ arg'[p].purchaseId \notin DOMAIN purchases )
             => /\ pc'[p] = "done"
                /\ ret'[p].err # NoErr
                /\ calls'[p] = [NoCalls EXCEPT !.activate = 1]
                /\ UNCHANGED <<ledger, remote>>
          /\ ( /\ pc[p] = "customer" /\ StepOf(p)
               /\ customers[frame[p].purchase.customerID] = NULL )
             => /\ pc'[p] = "done"
                /\ ret'[p].err # NoErr
                /\ calls'[p].grant = 0 /\ calls'[p].send = 0
                /\ UNCHANGED <<ledger, remote>>]_vars

\* C17 witness: an activation of an existing purchase whose customer row is
\* gone returned not-found with nothing called and nothing granted.
C17_Witness ==
    \E p \in Procs :
        /\ op[p] = OpProcess /\ pc[p] = "done" /\ ret[p].err = ErrNotFound
        /\ arg[p].purchaseId \in DOMAIN purchases
        /\ customers[BuyerId] = NULL
        /\ calls[p].grant = 0 /\ calls[p].send = 0
        /\ remnawave[BuyerId] = 0

\* the currency CreateCheckout negotiates for: the one asked for, USD when
\* none was given
RequestedCurrency == IF co.reqCurrency = "" THEN "USD" ELSE co.reqCurrency

\* C18: the country sent to the provider is the first of the candidate list
\* of the requested currency whose payment-method query succeeds with an
\* active card method: the countries are queried in list order, a failed
\* query or one without such a method moves on to the next country, a match
\* ends the queries, and the matched country is the one in the request.
C18_FirstCountryWithActiveCard ==
    [][/\ (co.pc = "filter" /\ co'.pc # "filter")
          => LET list == CountriesToTry(RequestedCurrency)
                 match == /\ ~co.resp.err
                          /\ \E m \in co.resp.data :
                                m.category = "card" /\ m.status = 1
             IN /\ co.nQueries = co.idx
                /\ co.lastQuery = <<list[co.idx], RequestedCurrency>>
                /\ IF match
                   THEN co'.pc = "request" /\ co'.selectedCountry = list[co.idx]
                   ELSE /\ co'.selectedCountry = ""
                        /\ co'.idx = co.idx + 1
                        /\ co'.pc = IF co.idx < Len(list) THEN "loop"
                                    ELSE "fallback"
       /\ co.selectedCountry # ""
          => /\ co'.nQueries = co.nQueries
             /\ co'.selectedCountry = co.selectedCountry
       /\ (co.request = NULL /\ co'.request # NULL)
          => /\ co'.request.country = co.selectedCountry
             /\ co.selectedCountry # ""]_vars

\* C18 witness: for USD the first two countries had no active card method
\* (or their query failed), the third had one, and the checkout was
\* requested for CA in USD after exactly three queries.
C18_Witness ==
    /\ co.pc = "done" /\ co.reqCurrency = "USD"
    /\ co.request # NULL
    /\ co.request.country = "CA" /\ co.request.currency = "USD"
    /\ co.nQueries = 3 /\ co.lastQuery = <<"CA", "USD">>

\* C19: negotiation never aborts the sale: every CreateCheckout call goes
\* on to post its checkout request, whatever the queries answered; the
\* request has a country and a currency, and they are DE and EUR when no
\* candidate matched.
C19_NegotiationNeverAborts ==
    /\ (co.pc = "start") ~> (co.request # NULL)
    /\ [](co.request # NULL
          => /\ co.request.country # "" /\ co.request.currency # ""
             /\ co.idx > Len(CountriesToTry(RequestedCurrency))
                => /\ co.request.country = "DE"
                   /\ co.request.currency = "EUR")

\* C19 witness: neither candidate country for GBP had an active card method
\* and the checkout was requested for DE in EUR.
C19_Witness ==
    /\ co.pc = "done" /\ co.reqCurrency = "GBP" /\ co.nQueries = 2
    /\ co.request # NULL
    /\ co.request.country = "DE" /\ co.request.currency = "EUR"

\* C20: whenever the checkout is requested in a currency other than the one
\* asked for, the amount sent is the converted one (USD to EUR at 0.85),
\* never the number asked for.
C20_FallbackAmountIsConverted ==
    (co.request # NULL /\ co.request.currency # RequestedCurrency)
    => /\ co.request.amount # co.reqAmount
       /\ RequestedCurrency = "USD"
          => co.request.amount = (co.reqAmount * 85) \div 100

\* C21: convertAmountToCurrency returns amount times rate rounded to the
\* nearest whole unit for JPY, KRW and IDR, amount times rate rounded
\* half-up for every other currency of the table, and the amount itself for
\* a currency outside the table. (rates are in hundredths: r is the result
\* of a half-up rounding of n/100 iff 100r - 50 <= n < 100r + 50.)
C21_ConversionRounding ==
    cv.pc = "done"
    => LET n == cv.amountUSD * rates[cv.currency]
           r == cv.result
       IN IF cv.currency \notin
                {"USD", "EUR", "GBP", "ILS", "CAD", "AUD", "JPY", "SGD", "SEK",
                 "NOK", "DKK", "CHF", "PLN", "CZK", "HUF", "RON", "BGN", "HRK",
                 "MXN", "BRL", "ZAR", "RUB", "UAH", "INR", "KRW", "TWD", "THB",
                 "MYR", "IDR", "PHP"}
          THEN r = cv.amountUSD
          ELSE IF cv.currency \in {"JPY", "KRW", "IDR"}
          THEN 100 * r - 50 <= n /\ n <= 100 * r + 50
          ELSE 100 * r - 50 <= n /\ n < 100 * r + 50

\* C21 witness: 10 USD are 8.5 EUR, converted to 9.
C21_Witness ==
    /\ cv.pc = "done" /\ cv.amountUSD = 10 /\ cv.currency = "EUR"
    /\ cv.result = 9

\* C22: the USD-to-EUR conversion of CreateCheckout's fallback rounds
\* half-up: the amount it leaves for the request is floor(amount*0.85 + 0.5).
C22_FallbackRoundsHalfUp ==
    [][(co.pc = "fallback" /\ co'.pc = "request" /\ co.currency = "USD")
       => co'.amount = (co.amount * 85 + 50) \div 100]_vars

\* C23 (as stated): equal inputs give equal signatures, and two calls that
\* differ in exactly one input give different signatures, also when the one
\* difference is the letter case of the method.
C23_AnyDifferenceChangesSignature ==
    rq.pc = "done"
    => /\ rq.a = rq.b => rq.sigA = rq.sigB
       /\ Cardinality(Differences(rq.a, rq.b)) = 1 => rq.sigA # rq.sigB

\* C23 (amended): equal inputs give equal signatures; two calls that differ
\* in exactly one input give different signatures unless the difference is
\* only the letter case of the method, and then the signatures are equal.
C23_SignatureDeterministicAndSensitive ==
    rq.pc = "done"
    => LET caseOnly == /\ Differences(rq.a, rq.b) = {"method"}
                       /\ ToLower(rq.a.method) = ToLower(rq.b.method)
       IN /\ rq.a = rq.b => rq.sigA = rq.sigB
          /\ (Cardinality(Differences(rq.a, rq.b)) = 1 /\ ~caseOnly)
             => rq.sigA # rq.sigB
          /\ caseOnly => rq.sigA = rq.sigB

\* C23 witness: two requests that differ in the salt alone got different
\* signatures.
C23_Witness ==
    /\ rq.pc = "done"
    /\ Differences(rq.a, rq.b) = {"salt"}
    /\ rq.sigA # rq.sigB

\* C24: the signature is base64(hex(HMAC-SHA256(secret, lowercase(method) +
\* path + salt + timestamp + access key + secret + body))).
C24_SignatureFormula ==
    rq.pc = "done"
    => rq.sigA =
         <<"base64",
           <<"hex",
             <<"hmac-sha256", rq.a.secretKey,
               ToLower(rq.a.method) \o rq.a.endpoint \o rq.a.salt
               \o rq.a.timestamp \o rq.a.accessKey \o rq.a.secretKey
               \o rq.a.body>> >> >>

\* C24 witness: GET /a with salt s1, timestamp 17, keys ak and sk and body {}
\* is signed over "get/as117aksk{}".
C24_Witness ==
    /\ rq.pc = "done"
    /\ rq.a = [method |-> <<"G", "E", "T">>, endpoint |-> <<"/", "a">>,
               body |-> <<"{", "}">>, timestamp |-> <<"1", "7">>,
               salt |-> <<"s", "1">>, accessKey |-> <<"a", "k">>,
               secretKey |-> <<"s", "k">>]
    /\ rq.sigA =
         <<"base64",
           <<"hex",
             <<"hmac-sha256", <<"s", "k">>,
               <<"g", "e", "t", "/", "a", "s", "1", "1", "7", "a", "k",
                 "s", "k", "{", "}">> >> >> >>

\* C25: when the entitlement call of ProcessPurchaseById or the status
\* query of CheckRapydPaymentStatus fails, the error is returned and the
\* failing step changes no purchase, no customer and no referral record.
C25_RemoteFailureChangesNothing ==
    [][\A p \in Procs :
          /\ (pc[p] = "grant" /\ StepOf(p))
             => \/ /\ pc'[p] = "done"
                   /\ ret'[p].err # NoErr /\ ~ret'[p].paid
                   /\ UNCHANGED <<ledger, remnawave>>
                \/ /\ pc'[p] = "markPaid"
                   /\ remnawave'[frame[p].customer.id]
                        = remnawave[frame[p].customer.id]
                          + frame[p].purchase.month * DaysPerMonth
                   /\ UNCHANGED ledger
          /\ (pc[p] = "status" /\ StepOf(p) /\ pc'[p] = "done")
             => /\ ret'[p] = Ret("", 0, FALSE, ErrStatus)
                /\ UNCHANGED <<ledger, remote>>]_vars

\* C25 witness: an activation whose entitlement call failed returned the
\* error; the purchase is Pending, the customer has no link and no expiry.
C25_Witness ==
    \E p \in Procs :
        /\ op[p] = OpProcess /\ pc[p] = "done" /\ ret[p].err = ErrFailed
        /\ calls[p].grant = 1 /\ remnawave[BuyerId] = 0
        /\ purchases[arg[p].purchaseId].status = PurchaseStatusPending
        /\ customers[BuyerId] = Customer(BuyerId)

\* C26: CancelPayment on a purchase that is New or Pending sets its status
\* to Cancel (or fails and changes nothing) and changes no other field, no
\* other purchase, no customer and no referral record; on an id that does
\* not exist it returns an error and changes nothing.
C26_CancelChangesOnlyStatus ==
    [][\A p \in Procs :
          /\ ( /\ pc[p] = "cancel" /\ StepOf(p)
               /\ purchases[frame[p].purchaseId].status
                    \in {PurchaseStatusNew, PurchaseStatusPending} )
             => /\ pc'[p] = "done"
                /\ UNCHANGED <<customers, referral, remote>>
                /\ IF ret'[p].err = NoErr
                   THEN purchases' =
                          [purchases EXCEPT ![frame[p].purchaseId].status =
                                                PurchaseStatusCancel]
                   ELSE purchases' = purchases
          /\ ( /\ Started(p) /\ op'[p] = "CancelPayment"
               /\ arg'[p].purchaseId \notin DOMAIN purchases )
             => /\ pc'[p] = "done"
                /\ ret'[p].err # NoErr
                /\ UNCHANGED <<ledger, remote>>]_vars

\* C26 witness: a Pending Rapyd purchase was cancelled and kept its
\* checkout id and url.
C26_Witness ==
    \E p \in Procs :
        /\ op[p] = "CancelPayment" /\ pc[p] = "done" /\ ret[p].err = NoErr
        /\ purchases[arg[p].purchaseId].status = PurchaseStatusCancel
        /\ purchases[arg[p].purchaseId].rapydCheckoutID # NoStr
        /\ purchases[arg[p].purchaseId].rapydURL # NoStr

\* C27: every purchase has at most one non-null correlation pair, and a
\* non-null pair is the one of the purchase's own invoice type.
C27_OneCorrelationPair ==
    \A id \in DOMAIN purchases :
        LET row == purchases[id]
        IN /\ row.invoiceType # InvoiceTypeCrypto
              => row.cryptoInvoiceID = NoStr /\ row.cryptoInvoiceUrl = NoStr
           /\ row.invoiceType # InvoiceTypeYookasa
              => row.yookasaID = NoStr /\ row.yookasaUrl = NoStr
           /\ row.invoiceType # InvoiceTypeRapyd
              => row.rapydCheckoutID = NoStr /\ row.rapydURL = NoStr

\* C27 witness: a Rapyd purchase and a crypto purchase, both Pending, each
\* with its own pair.
C27_Witness ==
    \E i, j \in DOMAIN purchases :
        /\ purchases[i].invoiceType = InvoiceTypeRapyd
        /\ purchases[i].rapydCheckoutID # NoStr
        /\ purchases[j].invoiceType = InvoiceTypeCrypto
        /\ purchases[j].cryptoInvoiceID # NoStr

\* C28: in every state, a purchase that is Paid has a customer on whom the
\* link and the expiry of the grant have been persisted.
C28_PaidAfterCustomerPersisted ==
    \A id \in DOMAIN purchases :
        (purchases[id].status = PurchaseStatusPaid
         /\ customers[purchases[id].customerID] # NULL)
        => /\ customers[purchases[id].customerID].subscriptionLink # NoStr
           /\ customers[purchases[id].customerID].expireAt
                >= purchases[id].month * DaysPerMonth

\* C29: an activation that has committed the Paid transition goes on to the
\* referral lookup, whatever the outcome of the confirmation message.
C29_ReferralAttemptedAfterPaid ==
    [][\A p \in Procs :
          (pc[p] = "notify" /\ StepOf(p)) => pc'[p] = "referee"]_vars

\* C30: a failure to send the confirmation message is not returned as an
\* error by ProcessPurchaseById.
C30_SendFailureNotSurfaced ==
    [][\A p \in Procs :
          (pc[p] = "notify" /\ StepOf(p) /\ pc'[p] = "done")
          => ret'[p].err = NoErr]_vars

\* C31: the delete of the cached prompt never ends the activation: with or
\* without a cache entry, and whether or not the delete fails,
\* ProcessPurchaseById arrives at the entitlement call with the same
\* purchase and customer and with no record changed.
C31_PromptDeleteNeverAborts ==
    [][\A p \in Procs :
          /\ (pc[p] = "prompt" /\ StepOf(p))
             => /\ pc'[p] = "grant"
                /\ UNCHANGED <<ledger, remote, calls>>
                /\ [frame'[p] EXCEPT !.err = NoErr]
                     = [frame[p] EXCEPT !.err = NoErr]
          /\ (pc[p] = "customer" /\ StepOf(p) /\ pc'[p] # "done")
             => /\ pc'[p] \in {"prompt", "grant"}
                /\ UNCHANGED <<ledger, remote, calls>>
                /\ frame'[p] =
                     [frame[p] EXCEPT !.customer =
                         customers[frame[p].purchase.customerID]]]_vars

\* C31 witness: the delete of the prompt failed and the activation stands
\* at its entitlement call, with its purchase and customer loaded.
C31_Witness ==
    \E p \in Procs :
        /\ pc[p] = "grant" /\ frame[p].err = ErrFailed
        /\ calls[p].grant = 0
        /\ frame[p].purchase # NULL /\ frame[p].customer # NULL

\* C32: referral crediting runs in sequence: bonus-granted becomes true only
\* in a step of MarkBonusGranted, after the referrer's extension call
\* succeeded and the referrer's new link and expiry were persisted; the
\* notification of the referrer that follows leaves the flag true and
\* returns no error.
C32_ReferralStepsInSequence ==
    [][/\ ( /\ referral # NULL /\ ~referral.bonusGranted
            /\ referral'.bonusGranted )
          => /\ \E p \in Procs : pc[p] = "markBonus" /\ pc'[p] = "notifyBonus"
             /\ bonusCalls >= 1
             /\ remnawave[ReferrerId] >= ReferralDays
             /\ customers[ReferrerId] # NULL
             /\ customers[ReferrerId].subscriptionLink # NoStr
             /\ customers[ReferrerId].expireAt >= ReferralDays
             /\ UNCHANGED <<purchases, customers, remote>>
       /\ \A p \in Procs :
            (pc[p] = "notifyBonus" /\ StepOf(p))
            => /\ pc'[p] = "done"
               /\ ret'[p].err = NoErr
               /\ referral' = referral /\ referral.bonusGranted]_vars

\* C32 witness: an activation credited the referrer and returned without
\* error: the flag is true, the referrer's link and expiry are persisted.
C32_Witness ==
    \E p \in Procs :
        /\ op[p] = OpProcess /\ pc[p] = "done" /\ ret[p].err = NoErr
        /\ calls[p].bonus = 1 /\ calls[p].send = 2
        /\ referral # NULL /\ referral.bonusGranted
        /\ customers[ReferrerId].expireAt = ReferralDays

\* C33: when a referral record with bonus-granted false exists and the
\* referrer's customer record is absent, ProcessPurchaseById returns an
\* ordinary error (it does not crash), makes no referrer-extension call and
\* leaves bonus-granted false.
C33_AbsentReferrerIsAnError ==
    [][\A p \in Procs :
          (pc[p] = "bonus" /\ frame[p].refCustomer = NULL /\ StepOf(p))
          => /\ pc'[p] = "done"
             /\ ret'[p].err \notin {NoErr, ErrPanic}
             /\ bonusCalls' = bonusCalls
             /\ UNCHANGED <<ledger, remote>>]_vars

\* C34: a referral lookup that fails makes ProcessPurchaseById return an
\* error: with a referral record of the buyer present and its flag false,
\* the lookup step returns only with an error.
C34_LookupFailurePropagates ==
    [][\A p \in Procs :
          ( /\ pc[p] = "referee" /\ StepOf(p) /\ pc'[p] = "done"
            /\ FindByReferee(referral, frame[p].customer.telegramID) # NULL
            /\ ~referral.bonusGranted )
          => ret'[p].err # NoErr]_vars

\* C35: every request the Rapyd client sends carries the access_key,
\* signature, timestamp and salt headers; the signature is the one of the
\* salt and timestamp sent in those headers and of the body sent; for a nil
\* payload the body signed and sent is the empty string.
C35_RequestIsSignedAsSent ==
    rq.pc = "sent"
    => /\ {"access_key", "signature", "timestamp", "salt"}
            \subseteq DOMAIN rq.headers
       /\ rq.headers["access_key"] = rq.accessKey
       /\ rq.headers["signature"] =
             generateSignatureWithSalt(
                 [accessKey |-> rq.accessKey, secretKey |-> rq.secretKey],
                 rq.method, rq.endpoint, rq.body,
                 rq.headers["timestamp"], rq.headers["salt"])
       /\ rq.payload = NULL => rq.body = << >>
       /\ rq.payload # NULL => rq.body = Marshal(rq.payload)

\* C35 witness: a request without payload was sent with an empty body and
\* its four headers.
C35_Witness ==
    /\ rq.pc = "sent" /\ rq.payload = NULL /\ rq.body = << >>
    /\ rq.method = <<"G", "E", "T">>
    /\ rq.headers["salt"] = <<"s", "2">>

\* C36: when the insert of the New row fails, CreatePurchase returns an
\* error, whatever the invoice type (crypto, yookasa, telegram, rapyd), and
\* makes no call to the payment provider.
C36_InsertFailureIsAnError ==
    [][\A p \in Procs :
          ( /\ Started(p) /\ op'[p] = OpCreate
            /\ arg'[p].invoiceType \in SupportedInvoiceTypes
            /\ pc'[p] = "done" )
          => /\ ret'[p].err # NoErr
             /\ calls'[p].create = 0
             /\ purchases' = purchases]_vars

\* C37: when no other operation runs (the poll is the only operation ever
\* started), the boolean CheckRapydPaymentStatus returns agrees with the
\* ledger: it is true exactly when the purchase is Paid at the return.
C37_PollResultAgreesWithLedger ==
    [][\A p \in Procs :
          ( /\ StepOf(p) /\ pc'[p] = "done" /\ op'[p] = OpCheck
            /\ nOps' = 1 )
          => ( ret'[p].paid
               <=> /\ arg'[p].purchaseId \in DOMAIN purchases'
                   /\ purchases'[arg'[p].purchaseId].status
                        = PurchaseStatusPaid )]_vars

\* C38: over any sequence of activation attempts for one purchase, retries
\* after a failure part-way included, at most one entitlement-extension
\* call succeeds for it: the buyer is never extended by more than the days
\* of the one purchase.
C38_AtMostOneSuccessfulGrant ==
    \A id \in DOMAIN purchases :
        remnawave[purchases[id].customerID]
            <= purchases[id].month * DaysPerMonth

\* C39: in every state a purchase that is Paid has had a successful
\* entitlement-extension call for its owning customer: no operation marks a
\* purchase Paid without a grant before it.
C39_PaidHasGrant ==
    \A id \in DOMAIN purchases :
        purchases[id].status = PurchaseStatusPaid
        => /\ grantCalls[id] >= 1
           /\ remnawave[purchases[id].customerID]
                >= purchases[id].month * DaysPerMonth

\* C39 witness: a purchase created and then activated is Paid, after one
\* entitlement call that extended its buyer by the purchase's days.
C39_Witness ==
    \E id \in DOMAIN purchases :
        /\ purchases[id].status = PurchaseStatusPaid
        /\ grantCalls[id] = 1
        /\ remnawave[purchases[id].customerID]
             = purchases[id].month * DaysPerMonth

\* C40: no operation changes the amount, the currency, the month count, the
\* owning customer or the invoice type of a purchase once its row is
\* inserted; a Rapyd row keeps the requested amount and the currency USD
\* through the creation of its checkout and everything after.
C40_PurchaseTermsAreImmutable ==
    [][/\ \A id \in DOMAIN purchases :
            /\ id \in DOMAIN purchases'
            /\ purchases'[id].amount = purchases[id].amount
            /\ purchases'[id].currency = purchases[id].currency
            /\ purchases'[id].month = purchases[id].month
            /\ purchases'[id].customerID = purchases[id].customerID
            /\ purchases'[id].invoiceType = purchases[id].invoiceType
       /\ \A id \in DOMAIN purchases' :
            purchases'[id].invoiceType = InvoiceTypeRapyd
            => /\ purchases'[id].currency = "USD"
               /\ purchases'[id].amount \in Amounts]_vars

\* C40 witness: a Rapyd purchase whose checkout was created and recorded
\* still has the requested amount in USD.
C40_Witness ==
    \E p \in Procs :
        /\ op[p] = OpCreate /\ pc[p] = "done" /\ ret[p].err = NoErr
        /\ arg[p].invoiceType = InvoiceTypeRapyd
        /\ ret[p].purchaseId \in DOMAIN purchases
        /\ purchases[ret[p].purchaseId].rapydCheckoutID # NoStr
        /\ purchases[ret[p].purchaseId].currency = "USD"
        /\ purchases[ret[p].purchaseId].amount \in Amounts

====
